---- MODULE Spec2Model ----
(***************************************************************************)
(* Model of traefik.go: the configuration watcher goroutine, the signal    *)
(* goroutine, the main serve/restart loop, and LoadConfig / Invoke.        *)
(*                                                                         *)
(* Configurations live behind pointers to Configuration.  Go maps are     *)
(* records [isNil, m]: a nil map and an empty map differ only for          *)
(* reflect.DeepEqual.                                                      *)
(***************************************************************************)
EXTENDS Naturals, Sequences, FiniteSets, TLC

\* Number of routers LoadConfig builds in one run: the providers stop pushing
\* changed configurations after that many.
MaxBuilds == 3

----------------------------------------------------------------------------
(* Go values *)

NilMap == [isNil |-> TRUE, m |-> <<>>]

MakeMap(f) == [isNil |-> FALSE, m |-> f]

Keys(mp) == DOMAIN mp.m

\* Pointers.  NilPtr is the nil *Configuration; P0 is new(Configuration).
NilPtr == "nil"

P0 == "p0"

\* new(Configuration): both maps nil.
ZeroConfiguration == [Routes |-> NilMap, Backends |-> NilMap]

Server(u, w) == [Url |-> u, Weight |-> w]

BackendB1 == [Servers |-> MakeMap("s1" :> Server("http://s1", 1) @@ "s2" :> Server("%zz", 3))]

\* Two routes on the same backend b1.
ConfigurationA ==
    [Routes |-> MakeMap(
        "r1" :> [Backend |-> "b1",
                 Rules |-> MakeMap("h" :> [Category |-> "Host", Value |-> "a.com"]
                                @@ "p" :> [Category |-> "PathPrefix", Value |-> "/api"])]
     @@ "r2" :> [Backend |-> "b1",
                 Rules |-> MakeMap("p" :> [Category |-> "PathPrefix", Value |-> "/web"])]),
     Backends |-> MakeMap("b1" :> BackendB1)]

\* One valid route and one route naming a backend that Backends does not hold.
ConfigurationB ==
    [Routes |-> MakeMap(
        "r1" :> [Backend |-> "b1",
                 Rules |-> MakeMap("p" :> [Category |-> "PathPrefix", Value |-> "/api"])]
     @@ "r2" :> [Backend |-> "b9",
                 Rules |-> MakeMap("p" :> [Category |-> "PathPrefix", Value |-> "/web"])]),
     Backends |-> MakeMap("b1" :> BackendB1)]

\* One valid route and one route with a rule whose category is no method of mux.Route.
ConfigurationC ==
    [Routes |-> MakeMap(
        "r1" :> [Backend |-> "b1",
                 Rules |-> MakeMap("p" :> [Category |-> "PathPrefix", Value |-> "/api"])]
     @@ "r2" :> [Backend |-> "b1",
                 Rules |-> MakeMap("h" :> [Category |-> "Bogus", Value |-> "a.com"])]),
     Backends |-> MakeMap("b1" :> BackendB1)]

\* What the pointers point to.  pA and pA2 are separately constructed, equal values.
Heap ==
    [p \in {P0, "pZ", "pA", "pA2", "pB", "pC"} |->
        CASE p = P0    -> ZeroConfiguration
          [] p = "pZ"  -> ZeroConfiguration
          [] p = "pA"  -> ConfigurationA
          [] p = "pA2" -> ConfigurationA
          [] p = "pB"  -> ConfigurationB
          [] p = "pC"  -> ConfigurationC]

\* What a Provider may send on configurationChan.
Pushable == {NilPtr, "pZ", "pA", "pA2", "pB", "pC"}

----------------------------------------------------------------------------
(* reflect.DeepEqual on the types of Configuration *)

\* Maps are deeply equal when both are nil or both non-nil, they have the same
\* keys, and the values under each key are deeply equal.
RuleDeepEqual(a, b) == a.Category = b.Category /\ a.Value = b.Value

RulesDeepEqual(a, b) ==
    /\ a.isNil = b.isNil
    /\ Keys(a) = Keys(b)
    /\ \A k \in Keys(a) : RuleDeepEqual(a.m[k], b.m[k])

RouteDeepEqual(a, b) == a.Backend = b.Backend /\ RulesDeepEqual(a.Rules, b.Rules)

RoutesDeepEqual(a, b) ==
    /\ a.isNil = b.isNil
    /\ Keys(a) = Keys(b)
    /\ \A k \in Keys(a) : RouteDeepEqual(a.m[k], b.m[k])

ServerDeepEqual(a, b) == a.Url = b.Url /\ a.Weight = b.Weight

ServersDeepEqual(a, b) ==
    /\ a.isNil = b.isNil
    /\ Keys(a) = Keys(b)
    /\ \A k \in Keys(a) : ServerDeepEqual(a.m[k], b.m[k])

BackendDeepEqual(a, b) == ServersDeepEqual(a.Servers, b.Servers)

BackendsDeepEqual(a, b) ==
    /\ a.isNil = b.isNil
    /\ Keys(a) = Keys(b)
    /\ \A k \in Keys(a) : BackendDeepEqual(a.m[k], b.m[k])

ConfigurationDeepEqual(a, b) ==
    /\ BackendsDeepEqual(a.Backends, b.Backends)
    /\ RoutesDeepEqual(a.Routes, b.Routes)

\* A defect: comparing the pointers instead of what they point to.
PointerEqual(p, q) == p = q

\* reflect.DeepEqual(currentConfiguration, configuration) on two *Configuration.
DeepEqual(p, q) ==
    IF p = NilPtr \/ q = NilPtr THEN p = q
    ELSE p = q \/ ConfigurationDeepEqual(Heap[p], Heap[q])

----------------------------------------------------------------------------
(* LoadConfig and Invoke *)

\* All orders in which a Go range may visit the keys S.
Orders(S) ==
    {s \in [1..Cardinality(S) -> S] :
        \A i, j \in 1..Cardinality(S) : i # j => s[i] # s[j]}

\* The order ord (over a superset of S) restricted to S.
Restrict(ord, S) == SelectSeq(ord, LAMBDA k : k \in S)

\* Methods of *mux.Route that take one string and return the route.
RouteMethods == {"Host", "PathPrefix", "Methods"}

\* A defect: the method is invoked on a fresh route each time, so only the rule
\* applied last is kept.
InvokeOnFresh(route, name, value) ==
    IF route.panic \/ name \notin RouteMethods
    THEN [route EXCEPT !.panic = TRUE]
    ELSE [route EXCEPT !.matchers = <<<<name, value>>>>]

\* Invoke(newRoute, rule.Category, rule.Value): reflect's MethodByName gives the
\* zero Value for a name that is no method, and Call on it panics.
Invoke(route, name, value) ==
    IF route.panic \/ name \notin RouteMethods
    THEN [route EXCEPT !.panic = TRUE]
    ELSE [route EXCEPT !.matchers = Append(@, <<name, value>>)]

RECURSIVE ApplyRules(_, _, _)
\* The loop over route.Rules, visited in the order ord.
ApplyRules(route, rules, ord) ==
    IF ord = <<>> THEN route
    ELSE ApplyRules(Invoke(route, rules.m[Head(ord)].Category, rules.m[Head(ord)].Value),
                    rules, Tail(ord))

\* url.Parse: nil for a malformed URL.
ValidUrls == {"http://s1", "http://s2"}

\* The servers upserted for a backend name: those whose URL parses; none when the
\* name is no key of configuration.Backends (the zero Backend has a nil Servers map).
PoolOf(cfg, name) ==
    IF name \in Keys(cfg.Backends)
    THEN {s \in {cfg.Backends.m[name].Servers.m[k] : k \in Keys(cfg.Backends.m[name].Servers)} :
              s.Url \in ValidUrls}
    ELSE {}

\* A defect: the handler cache never hits.
CacheMissAlways(backends, name) == TRUE

\* backends[route.Backend] == nil
CacheMiss(backends, name) == name \notin DOMAIN backends

\* A defect: the handler map is a package variable, so it still holds the load
\* balancers of the previous LoadConfig call.
PackageBackends(prev) ==
    [routes |-> <<>>, pools |-> prev.pools, lbs |-> prev.lbs, backends |-> prev.backends,
     panic |-> FALSE]

\* router := mux.NewRouter() and backends := map[string]http.Handler{}: the state
\* LoadConfig starts from, whatever router prev was built before.  pools[k] are the
\* servers of the k-th load balancer and lbs[k] says which roundrobin.New() call
\* made it: the number of the router being built and k.
MakeBackends(prev) ==
    [routes |-> <<>>, pools |-> <<>>, lbs |-> <<>>, backends |-> <<>>, panic |-> FALSE]

\* One iteration of the loop over configuration.Routes building router number id.
LoadRoute(st, cfg, id, routeName, ruleOrd) ==
    LET route    == cfg.Routes.m[routeName]
        newRoute == ApplyRules([matchers |-> <<>>, panic |-> FALSE], route.Rules,
                               Restrict(ruleOrd, Keys(route.Rules)))
        miss     == CacheMiss(st.backends, route.Backend)
        lb       == IF miss THEN Len(st.pools) + 1 ELSE st.backends[route.Backend]
    IN  IF st.panic \/ newRoute.panic THEN [st EXCEPT !.panic = TRUE]
        ELSE [st EXCEPT
                !.backends = IF miss THEN (route.Backend :> lb) @@ @ ELSE @,
                !.pools    = IF miss THEN Append(@, PoolOf(cfg, route.Backend)) ELSE @,
                !.lbs      = IF miss THEN Append(@, <<id, lb>>) ELSE @,
                !.routes   = Append(@, [name |-> routeName,
                                        matchers |-> newRoute.matchers,
                                        handler |-> lb])]

RECURSIVE LoadRoutes(_, _, _, _, _)
LoadRoutes(st, cfg, id, routeOrd, ruleOrd) ==
    IF routeOrd = <<>> THEN st
    ELSE LoadRoutes(LoadRoute(st, cfg, id, Head(routeOrd), ruleOrd), cfg, id,
                    Tail(routeOrd), ruleOrd)

\* mux.NewRouter() with the not-found handler: router number id, no route.
\* backends is the handler map of the LoadConfig call that built the router, as
\* it was when the call returned.
NewRouter(id) == [id |-> id, routes |-> <<>>, pools |-> <<>>, lbs |-> <<>>, backends |-> <<>>]

\* LoadDefaultConfig
LoadDefaultConfig == NewRouter(0)

\* LoadConfig(configuration, ...) building router number id when prev is the
\* router built before, the maps visited in the given orders.  The result carries
\* panic = TRUE when Invoke panicked.
LoadConfig(prev, cfg, id, routeOrd, ruleOrd) ==
    LET st == LoadRoutes(MakeBackends(prev), cfg, id, routeOrd, ruleOrd)
    IN  [router |-> [id |-> id, routes |-> st.routes, pools |-> st.pools,
                     lbs |-> st.lbs, backends |-> st.backends],
         panic  |-> st.panic]

\* gorilla/mux records an error on a route given a path template that does not
\* start with a slash; newRoute.GetError() returns it.
GetError(route) ==
    \E k \in Keys(route.Rules) :
        /\ route.Rules.m[k].Category = "PathPrefix"
        /\ route.Rules.m[k].Value \notin {"/", "/api", "/api/", "/api/x", "/web", "/other"}

\* What LoadConfig reports: its one log.Error call is for the error of a route.
\* The errors of url.Parse and rb.UpsertServer are dropped.
ErrorsLogged(cfg) ==
    {[what |-> "route", name |-> r] : r \in {x \in Keys(cfg.Routes) : GetError(cfg.Routes.m[x])}}

AllRuleNames(cfg) == UNION {Keys(cfg.Routes.m[r].Rules) : r \in Keys(cfg.Routes)}

----------------------------------------------------------------------------
(* Serving a request with a router *)

Hosts == {"a.com", "b.com"}

Paths == {"/api/x", "/web", "/other"}

Requests == [Host : Hosts, Path : Paths, Method : {"GET"}]

\* strings.HasPrefix over the paths and prefixes of the model.
HasPrefix(path, prefix) ==
    \/ prefix = path
    \/ prefix = "/"
    \/ path = "/api/x" /\ prefix \in {"/api", "/api/"}

\* One matcher of a mux.Route against a request.
MatcherMatches(mt, req) ==
    CASE mt[1] = "Host"       -> req.Host = mt[2]
      [] mt[1] = "PathPrefix" -> HasPrefix(req.Path, mt[2])
      [] mt[1] = "Methods"    -> req.Method = mt[2]
      [] OTHER                -> FALSE

\* A route matches when every matcher does.
RouteMatches(rt, req) == \A i \in 1..Len(rt.matchers) : MatcherMatches(rt.matchers[i], req)

\* The router serves with the first route that matches; the not-found handler
\* when none does; a load balancer without servers fails the request.
Resolve(router, req) ==
    LET hits == {i \in 1..Len(router.routes) : RouteMatches(router.routes[i], req)}
    IN  IF hits = {} THEN [kind |-> "notfound", route |-> "", lb |-> 0]
        ELSE LET i  == CHOOSE i \in hits : \A j \in hits : i <= j
                 rt == router.routes[i]
             IN  [kind  |-> IF router.pools[rt.handler] = {} THEN "error" ELSE "forward",
                  route |-> rt.name,
                  lb    |-> rt.handler]

----------------------------------------------------------------------------
(* The process: main and its goroutines *)

VARIABLES
    gloablConfiguration,   \* the global configuration read from the file at startup
    currentConfiguration,  \* package variable: pointer to the active Configuration
    configurationRouter,   \* main's router variable, written by the watcher
    srv,                   \* main's server variable: 0 is nil, else an index of servers
    goAway,                \* main's shutdown flag, written by the signal goroutine
    configuration,         \* the watcher's local: the value last received
    wpc,                   \* watcher goroutine: "recv", "load", "stop"
    spc,                   \* signal goroutine: "wait", "stop", "done"
    mpc,                   \* main loop: "check", "create", "wait", "exit"
    negroni,               \* main's local: the handler read from configurationRouter
    servers,               \* every graceful.Server created so far
    pending,               \* serve goroutines spawned and not yet run
    nrouters,              \* routers built by LoadConfig so far
    crash                  \* "none", or the panic that ended the process

vars == <<gloablConfiguration, currentConfiguration, configurationRouter, srv, goAway, configuration,
          wpc, spc, mpc, negroni, servers, pending, nrouters, crash>>

\* The process runs until main returns or a goroutine panics.
Alive == crash = "none" /\ mpc # "exit"

\* The global configurations the file can give: each of CertFile and KeyFile is
\* the empty string or a path.
GlobalConfigurations == [CertFile : {"", "cert.pem"}, KeyFile : {"", "key.pem"}]

\* The package variables and main's locals when main reaches the serve loop.
InitProcess ==
    /\ currentConfiguration = P0
    /\ configurationRouter = LoadDefaultConfig
    /\ srv = 0
    /\ goAway = FALSE
    /\ configuration = NilPtr
    /\ wpc = "recv"
    /\ spc = "wait"
    /\ mpc = "check"
    /\ negroni = LoadDefaultConfig
    /\ servers = <<>>
    /\ pending = 0
    /\ nrouters = 0
    /\ crash = "none"

\* Started with a global configuration that names neither file.
Init ==
    /\ gloablConfiguration = [CertFile |-> "", KeyFile |-> ""]
    /\ InitProcess

\* Started with any global configuration.
InitTLS ==
    /\ gloablConfiguration \in GlobalConfigurations
    /\ InitProcess

(* graceful.Server *)

\* &graceful.Server{...Handler: negroni}.  drainCfg and drainId record the active
\* Configuration and the number of routers built when the listener was closed;
\* prevDrainCfg and prevDrainId are those of the server this one replaces.
\* inflight says that a connection accepted by the server is carrying a request;
\* listener is "none" until the server listens, then "tls" or "plain".
NewServer(handler, prevDrainCfg, prevDrainId) ==
    [handler |-> handler, state |-> "created", interrupt |-> FALSE, inflight |-> FALSE,
     listener |-> "none",
     drainCfg |-> NilPtr, drainId |-> 0,
     prevDrainCfg |-> prevDrainCfg, prevDrainId |-> prevDrainId]

\* A stopped server that srv no longer points to is unreachable: only the fact
\* that it stopped is kept.
Released ==
    [handler |-> LoadDefaultConfig, state |-> "stopped", interrupt |-> FALSE,
     inflight |-> FALSE, listener |-> "none", drainCfg |-> NilPtr, drainId |-> 0, prevDrainCfg |-> NilPtr, prevDrainId |-> 0]

Release(svs) == [i \in 1..Len(svs) |-> IF svs[i].state = "stopped" THEN Released ELSE svs[i]]

\* srv.Stop(timeout): posts the interrupt; nothing to do on a server that is
\* already closing its listener or has stopped.
Stop(svs, i) ==
    IF svs[i].state \in {"created", "serving"}
    THEN [svs EXCEPT ![i].interrupt = TRUE]
    ELSE svs

\* A defect: the stop channel read never blocks.
StopChanClosedAlways(sv) == TRUE

\* <-srv.StopChan() returns once the server has fully stopped.
StopChanClosed(sv) == sv.state = "stopped"

(* The configuration watcher goroutine *)

\* A defect: an empty Configuration is skipped like a nil one.
IsNilOrEmpty(c) ==
    \/ c = NilPtr
    \/ Keys(Heap[c].Routes) = {} /\ Keys(Heap[c].Backends) = {}

\* A defect: the nil test is missing.
NeverNil(c) == FALSE

\* configuration == nil
IsNil(c) == c = NilPtr

\* A defect: the accepted value is not stored, so every later value is compared
\* with the first active Configuration.
KeepConfiguration(old, new) == old

\* currentConfiguration = configuration
StoreConfiguration(old, new) == new

\* A defect: each value is handled in a goroutine of its own, so the next one is
\* received while the previous one is being handled.
AtReceiveAlways(pc) == TRUE

\* for { configuration := <-configurationChan ... }: the one watcher goroutine is
\* at the receive only when the body of the previous iteration has returned.
AtReceive(pc) == pc = "recv"

\* configuration := <-configurationChan and the branch taken on it; an accepted
\* value becomes currentConfiguration.  The channel is unbuffered: c is the value
\* of whichever Provider's send meets the receive, the other Providers stay
\* blocked in their sends.
WatcherReceive(c) ==
    /\ Alive
    /\ UNCHANGED gloablConfiguration
    /\ AtReceive(wpc)
    /\ configuration' = c
    /\ IF IsNil(c) \/ DeepEqual(currentConfiguration, c)
       THEN UNCHANGED <<currentConfiguration, wpc>>
       ELSE /\ nrouters < MaxBuilds
            /\ currentConfiguration' = StoreConfiguration(currentConfiguration, c)
            /\ wpc' = "load"
    /\ UNCHANGED <<configurationRouter, srv, goAway, spc, mpc, negroni, servers,
                   pending, nrouters, crash>>

\* A defect: the router is stored before its last route has been added.
StoreRouterEarly(old, new) ==
    [new EXCEPT !.routes = SubSeq(@, 1, Len(@) - 1)]

\* A defect: the built router is dropped instead of stored.
KeepRouter(old, new) == old

\* configurationRouter = LoadConfig(...)
StoreRouter(old, new) == new

\* configurationRouter = LoadConfig(configuration, gloablConfiguration); a panic
\* in the watcher goroutine ends the process.
WatcherLoad ==
    /\ Alive
    /\ UNCHANGED gloablConfiguration
    /\ wpc = "load"
    /\ IF configuration = NilPtr
       THEN /\ crash' = "nil configuration"
            /\ UNCHANGED <<configurationRouter, nrouters, wpc>>
       ELSE \E routeOrd \in Orders(Keys(Heap[configuration].Routes)),
               ruleOrd \in Orders(AllRuleNames(Heap[configuration])) :
              LET r == LoadConfig(configurationRouter, Heap[configuration], nrouters + 1,
                                  routeOrd, ruleOrd)
              IN  IF r.panic
                  THEN /\ crash' = "invoke"
                       /\ UNCHANGED <<configurationRouter, nrouters, wpc>>
                  ELSE /\ configurationRouter' = StoreRouter(configurationRouter, r.router)
                       /\ nrouters' = nrouters + 1
                       /\ wpc' = "stop"
                       /\ UNCHANGED crash
    /\ UNCHANGED <<currentConfiguration, srv, goAway, configuration, spc, mpc, negroni,
                   servers, pending>>

\* srv.Stop(GraceTimeOut) in the watcher, where a nil srv is a nil dereference,
\* then time.Sleep(3 * time.Second) and back to the receive.
WatcherStop ==
    /\ Alive
    /\ UNCHANGED gloablConfiguration
    /\ wpc = "stop"
    /\ IF srv = 0
       THEN crash' = "nil srv" /\ UNCHANGED <<servers, wpc>>
       ELSE servers' = Stop(servers, srv) /\ wpc' = "recv" /\ UNCHANGED crash
    /\ UNCHANGED <<currentConfiguration, configurationRouter, srv, goAway, configuration,
                   spc, mpc, negroni, pending, nrouters>>

(* The signal goroutine *)

\* sig := <-sigs, then goAway = true
SignalReceive ==
    /\ Alive
    /\ UNCHANGED gloablConfiguration
    /\ spc = "wait"
    /\ goAway' = TRUE
    /\ spc' = "stop"
    /\ UNCHANGED <<currentConfiguration, configurationRouter, srv, configuration,
                   wpc, mpc, negroni, servers, pending, nrouters, crash>>

\* srv.Stop(GraceTimeOut) in the signal goroutine.
SignalStop ==
    /\ Alive
    /\ UNCHANGED gloablConfiguration
    /\ spc = "stop"
    /\ IF srv = 0
       THEN crash' = "nil srv" /\ UNCHANGED <<servers, spc>>
       ELSE servers' = Stop(servers, srv) /\ spc' = "done" /\ UNCHANGED crash
    /\ UNCHANGED <<currentConfiguration, configurationRouter, srv, goAway, configuration,
                   wpc, mpc, negroni, pending, nrouters>>

(* The main loop *)

\* A defect: the router read once before the loop is used for every start.
RouterReadStale(router) == LoadDefaultConfig

\* negroni.UseHandler(configurationRouter)
RouterRead(router) == router

\* if goAway { break }, then the middlewares around configurationRouter.
MainCheck ==
    /\ Alive
    /\ UNCHANGED gloablConfiguration
    /\ mpc = "check"
    /\ IF goAway
       THEN mpc' = "exit" /\ UNCHANGED negroni
       ELSE mpc' = "create" /\ negroni' = RouterRead(configurationRouter)
    /\ UNCHANGED <<currentConfiguration, configurationRouter, srv, goAway, configuration,
                   wpc, spc, servers, pending, nrouters, crash>>

\* srv = &graceful.Server{...} and the go statement that will serve it.
MainCreate ==
    /\ Alive
    /\ UNCHANGED gloablConfiguration
    /\ mpc = "create"
    /\ servers' = Append(Release(servers),
                          IF srv = 0 THEN NewServer(negroni, NilPtr, 0)
                          ELSE NewServer(negroni, servers[srv].drainCfg, servers[srv].drainId))
    /\ srv' = Len(servers) + 1
    /\ pending' = pending + 1
    /\ mpc' = "wait"
    /\ UNCHANGED <<currentConfiguration, configurationRouter, goAway, configuration,
                   wpc, spc, negroni, nrouters, crash>>

\* <-srv.StopChan()
MainWait ==
    /\ Alive
    /\ UNCHANGED gloablConfiguration
    /\ mpc = "wait"
    /\ StopChanClosed(servers[srv])
    /\ mpc' = "check"
    /\ UNCHANGED <<currentConfiguration, configurationRouter, srv, goAway, configuration,
                   wpc, spc, negroni, servers, pending, nrouters, crash>>

(* The serve goroutine and the server it runs *)

\* A defect: one of the two files is enough for TLS.
EitherFile(g) == g.CertFile # "" \/ g.KeyFile # ""

\* len(gloablConfiguration.CertFile) > 0 && len(gloablConfiguration.KeyFile) > 0
BothFiles(g) == g.CertFile # "" /\ g.KeyFile # ""

\* go func() { srv.ListenAndServe[TLS]() }(): the goroutine reads srv when it runs;
\* a server that is already listening or closed is not opened again.
ListenAndServe ==
    /\ Alive
    /\ UNCHANGED gloablConfiguration
    /\ pending > 0
    /\ pending' = pending - 1
    /\ servers' = IF servers[srv].state = "created"
                  THEN [servers EXCEPT
                          ![srv].state = "serving",
                          ![srv].listener = IF BothFiles(gloablConfiguration)
                                            THEN "tls" ELSE "plain"]
                  ELSE servers
    /\ UNCHANGED <<currentConfiguration, configurationRouter, srv, goAway, configuration,
                   wpc, spc, mpc, negroni, nrouters, crash>>

\* The server's interrupt handler closes the listener: no new connection is
\* accepted, connections in flight go on.
HandleInterrupt(i) ==
    /\ Alive
    /\ UNCHANGED gloablConfiguration
    /\ servers[i].state = "serving"
    /\ servers[i].interrupt
    /\ servers' = [servers EXCEPT ![i].state = "draining",
                                  ![i].drainCfg = currentConfiguration,
                                  ![i].drainId = nrouters]
    /\ UNCHANGED <<currentConfiguration, configurationRouter, srv, goAway, configuration,
                   wpc, spc, mpc, negroni, pending, nrouters, crash>>

\* Draining ends when no connection is left: the stop channel is closed.
Shutdown(i) ==
    /\ Alive
    /\ UNCHANGED gloablConfiguration
    /\ servers[i].state = "draining"
    /\ ~servers[i].inflight
    /\ servers' = [servers EXCEPT ![i].state = "stopped"]
    /\ UNCHANGED <<currentConfiguration, configurationRouter, srv, goAway, configuration,
                   wpc, spc, mpc, negroni, pending, nrouters, crash>>

\* A server in service accepts a connection and starts on its request.
RequestArrives(i) ==
    /\ Alive
    /\ UNCHANGED gloablConfiguration
    /\ servers[i].state = "serving"
    /\ ~servers[i].inflight
    /\ servers' = [servers EXCEPT ![i].inflight = TRUE]
    /\ UNCHANGED <<currentConfiguration, configurationRouter, srv, goAway, configuration,
                   wpc, spc, mpc, negroni, pending, nrouters, crash>>

\* The request is answered by the handler of its server and the connection
\* closes, whether the server is in service or draining.
RequestCompletes(i) ==
    /\ Alive
    /\ UNCHANGED gloablConfiguration
    /\ servers[i].state \in {"serving", "draining"}
    /\ servers[i].inflight
    /\ servers' = [servers EXCEPT ![i].inflight = FALSE]
    /\ UNCHANGED <<currentConfiguration, configurationRouter, srv, goAway, configuration,
                   wpc, spc, mpc, negroni, pending, nrouters, crash>>

\* Timeout: GraceTimeOut elapses on a draining server: the connections left are
\* closed and the stop channel is closed.
GraceElapsed(i) ==
    /\ Alive
    /\ UNCHANGED gloablConfiguration
    /\ servers[i].state = "draining"
    /\ servers[i].inflight
    /\ servers' = [servers EXCEPT ![i].state = "stopped", ![i].inflight = FALSE]
    /\ UNCHANGED <<currentConfiguration, configurationRouter, srv, goAway, configuration,
                   wpc, spc, mpc, negroni, pending, nrouters, crash>>

Next ==
    \/ \E c \in Pushable : WatcherReceive(c)
    \/ WatcherLoad
    \/ WatcherStop
    \/ SignalReceive
    \/ SignalStop
    \/ MainCheck
    \/ MainCreate
    \/ MainWait
    \/ ListenAndServe
    \/ \E i \in 1..Len(servers) : HandleInterrupt(i)
    \/ \E i \in 1..Len(servers) : Shutdown(i)
    \/ \E i \in 1..Len(servers) : RequestArrives(i)
    \/ \E i \in 1..Len(servers) : RequestCompletes(i)
    \/ \E i \in 1..Len(servers) : GraceElapsed(i)

Spec == Init /\ [][Next]_vars

\* The program started with any global configuration, its Providers pushing nil,
\* A and B.
NextTLS ==
    \/ \E c \in {NilPtr, "pA", "pB"} : WatcherReceive(c)
    \/ WatcherLoad
    \/ WatcherStop
    \/ SignalReceive
    \/ SignalStop
    \/ MainCheck
    \/ MainCreate
    \/ MainWait
    \/ ListenAndServe
    \/ \E i \in 1..Len(servers) : HandleInterrupt(i)
    \/ \E i \in 1..Len(servers) : Shutdown(i)
    \/ \E i \in 1..Len(servers) : RequestArrives(i)
    \/ \E i \in 1..Len(servers) : RequestCompletes(i)
    \/ \E i \in 1..Len(servers) : GraceElapsed(i)

SpecTLS == InitTLS /\ [][NextTLS]_vars

----------------------------------------------------------------------------
(* Properties *)

\* A step of the watcher that takes a value from configurationChan.
Received == wpc = "recv" /\ (configuration' # configuration \/ wpc' # wpc)

\* The received value is dropped: no rebuild, no stop, the watcher is idle again.
Ignored ==
    /\ wpc' = "recv"
    /\ UNCHANGED <<currentConfiguration, configurationRouter, nrouters, servers, srv, crash>>

\* Field-for-field equality of what two non-nil pointers point to.
SameValue(p, q) == p # NilPtr /\ q # NilPtr /\ Heap[p] = Heap[q]

\* A Configuration with no routes and no backends.
IsEmpty(cfg) == Keys(cfg.Routes) = {} /\ Keys(cfg.Backends) = {}

\* The routers LoadConfig can return for the Configuration behind p.
TablesOf(p) ==
    LET all == {LoadConfig(LoadDefaultConfig, Heap[p], 0, ro, ru) :
                    ro \in Orders(Keys(Heap[p].Routes)), ru \in Orders(AllRuleNames(Heap[p]))}
    IN  {r.router : r \in {x \in all : ~x.panic}}

\* Router t has the routes and load balancers LoadConfig builds from p.
TableBuiltFrom(t, p) ==
    p # NilPtr /\ \E x \in TablesOf(p) : x.routes = t.routes /\ x.pools = t.pools

\* configurationRouter is the router built from the active Configuration.
RouterIsCurrent == nrouters > 0 /\ wpc # "load"

\* C1: a received Configuration that is field-for-field equal to the active one,
\* also behind another pointer, causes no LoadConfig and no Stop; and a value equal
\* to the one received just before it causes none either, so the same
\* Configuration twice in a row is rebuilt and cut over once.
C1_EqualConfigurationIgnored ==
    [][(/\ Received
        /\ \/ SameValue(currentConfiguration, configuration')
           \/ SameValue(configuration, configuration'))
       => Ignored]_vars

\* C1 witness: pA was accepted and built once, the equal pA2 came next and was
\* dropped, and the one cutover has put a second server in service.
C1_Witness ==
    /\ currentConfiguration = "pA"
    /\ configuration = "pA2"
    /\ nrouters = 1
    /\ wpc = "recv"
    /\ Len(servers) = 2
    /\ servers[2].state = "serving"

\* C2: a received nil Configuration changes neither the active Configuration,
\* nor the router, nor any server: no LoadConfig, no Stop.
C2_NilIgnored ==
    [][(Received /\ configuration' = NilPtr) => Ignored]_vars

\* C2 witness: nil was received while pA was active and its router in service.
C2_Witness ==
    /\ configuration = NilPtr
    /\ currentConfiguration = "pA"
    /\ configurationRouter.id = 1
    /\ wpc = "recv"
    /\ Len(servers) = 2

DanglingRoutes(cfg) ==
    {r \in Keys(cfg.Routes) : cfg.Routes.m[r].Backend \notin Keys(cfg.Backends)}

\* C4 as claimed: the router built from the active Configuration has no entry for
\* a route whose backend is missing, so a request that only such a route matches
\* gets the not-found handler.
C4_DanglingRouteSkipped ==
    RouterIsCurrent =>
        LET cfg == Heap[currentConfiguration]
            rt  == configurationRouter
        IN  /\ \A i \in 1..Len(rt.routes) : rt.routes[i].name \notin DanglingRoutes(cfg)
            /\ \A req \in Requests :
                 Resolve(rt, req).route \in DanglingRoutes(cfg)
                     => Resolve(rt, req).kind = "notfound"

\* Some rule of cfg names a category that is no method of mux.Route.
HasUnknownCategory(cfg) ==
    \E r \in Keys(cfg.Routes) : \E k \in Keys(cfg.Routes.m[r].Rules) :
        cfg.Routes.m[r].Rules.m[k].Category \notin RouteMethods

\* C5 as claimed: accepting a Configuration with a rule of an unknown category
\* does not end the process.
C5_UnknownCategoryContained ==
    (currentConfiguration # NilPtr /\ HasUnknownCategory(Heap[currentConfiguration]))
        => crash = "none"

\* C6: in the router built from the active Configuration, two routes have the
\* same load balancer exactly when they name the same backend, and the number of
\* load balancers built is the number of distinct backend names of the routes,
\* in whatever order the routes were visited.
C6_OneBalancerPerBackend ==
    RouterIsCurrent =>
        LET cfg == Heap[currentConfiguration]
            rt  == configurationRouter
        IN  /\ Len(rt.routes) = Cardinality(Keys(cfg.Routes))
            /\ Len(rt.pools) = Cardinality({cfg.Routes.m[r].Backend : r \in Keys(cfg.Routes)})
            /\ \A i, j \in 1..Len(rt.routes) :
                 (rt.routes[i].handler = rt.routes[j].handler)
                     <=> (cfg.Routes.m[rt.routes[i].name].Backend
                              = cfg.Routes.m[rt.routes[j].name].Backend)

\* C6 witness: the router of pA, its routes visited r2 first, has both routes on
\* the one load balancer built.
C6_Witness ==
    /\ RouterIsCurrent
    /\ currentConfiguration = "pA"
    /\ Len(configurationRouter.routes) = 2
    /\ configurationRouter.routes[1].name = "r2"
    /\ configurationRouter.routes[1].handler = configurationRouter.routes[2].handler
    /\ Len(configurationRouter.pools) = 1

\* C7 as claimed: once the signal goroutine has set goAway and called Stop, main
\* is not left blocked on the stop channel of a server that is in service with no
\* stop posted, while the watcher is idle.
C7_NotBlockedAfterSignal ==
    ~(/\ crash = "none"
      /\ spc = "done"
      /\ wpc = "recv"
      /\ mpc = "wait"
      /\ pending = 0
      /\ servers[srv].state = "serving"
      /\ ~servers[srv].interrupt)

\* C8 as claimed: once the termination signal has been received, no server
\* instance is created.
C8_NoStartAfterSignal ==
    [][spc # "wait" => Len(servers') = Len(servers)]_vars

\* C9: at most one server is accepting connections, and every server but the
\* latest has fully stopped: main creates a successor only after the stop channel
\* of the current one has been closed.
C9_AtMostOneAccepting ==
    /\ Cardinality({i \in 1..Len(servers) : servers[i].state = "serving"}) <= 1
    /\ \A i \in 1..Len(servers) : i < Len(servers) => servers[i].state = "stopped"
    /\ srv = Len(servers)

\* C9 witness: a successor is in service after its predecessor has stopped.
C9_Witness ==
    /\ Len(servers) = 2
    /\ servers[1].state = "stopped"
    /\ servers[2].state = "serving"

\* C10 as claimed: a server that replaces another is bound to the router built
\* from the Configuration that was active when the replaced one began draining.
C10_TableOfConfigurationAtDrain ==
    \A i \in 1..Len(servers) :
        servers[i].prevDrainCfg # NilPtr
            => TableBuiltFrom(servers[i].handler, servers[i].prevDrainCfg)

\* C10 amended: the router main binds to a server is the one configurationRouter
\* holds when main reads it for that start, which is the latest router built:
\* the default router when none was built, and the router of the active
\* Configuration unless the watcher is in the middle of rebuilding.  A server's
\* router is never older than the latest one built when its predecessor began
\* draining, and may be newer.
C10_TableIsLatestBuilt ==
    /\ [][(mpc = "check" /\ mpc' = "create")
          => /\ negroni'.id = nrouters
             /\ (nrouters = 0 => negroni' = LoadDefaultConfig)
             /\ (RouterIsCurrent => TableBuiltFrom(negroni', currentConfiguration))]_vars
    /\ [](\A i \in 1..Len(servers) :
            servers[i].state # "stopped"
                => /\ servers[i].handler.id >= servers[i].prevDrainId
                   /\ servers[i].handler.id <= nrouters)

\* C10 witness: a server in service with the second router built, whose
\* predecessor began draining when only the first had been built.
C10_Witness ==
    /\ Len(servers) = 2
    /\ servers[2].state = "serving"
    /\ servers[2].handler.id = 2
    /\ servers[2].prevDrainId = 1

\* No step of the watcher, of main, of the signal goroutine or of a server is
\* pending: only a push, a signal or a request can change the state.
Quiescent ==
    /\ crash = "none"
    /\ wpc = "recv"
    /\ spc = "wait"
    /\ mpc = "wait"
    /\ pending = 0
    /\ servers[srv].state = "serving"
    /\ ~servers[srv].interrupt

\* C11 as claimed: an accepted Configuration is cut over.  When the watcher has
\* finished with the Configuration it accepted, no signal has arrived and nothing
\* is left to run, the server accepting connections is bound to the router built
\* from the active Configuration.
C11_AcceptedIsCutOver ==
    (Quiescent /\ nrouters > 0)
        => TableBuiltFrom(servers[srv].handler, currentConfiguration)

\* C12 as claimed: a request in flight on a server that a cutover has put to
\* draining is answered by that server or closed when the grace period elapses:
\* it is never cut short by the process ending.
C12_InFlightNotAborted ==
    \A i \in 1..Len(servers) :
        (servers[i].state = "draining" /\ servers[i].inflight /\ ~goAway)
            => crash = "none"

\* C13: the watcher handles one Configuration at a time.  A value is taken from
\* the channel only when the watcher is at the receive; from an accepted value
\* the watcher goes to the rebuild, from the rebuild to the stop, and comes back
\* to the receive only by the stop call having been made on the server handle,
\* with the router of the accepted Configuration stored.
C13_OneAtATime ==
    [][/\ (configuration' # configuration \/ currentConfiguration' # currentConfiguration)
            => wpc = "recv"
       /\ (wpc = "recv" /\ wpc' # "recv")
            => (wpc' = "load" /\ currentConfiguration' = configuration')
       /\ (wpc = "load" /\ wpc' # "load")
            => (wpc' = "stop" /\ nrouters' = nrouters + 1
                /\ TableBuiltFrom(configurationRouter', currentConfiguration))
       /\ (wpc = "stop" /\ wpc' # "stop")
            => (wpc' = "recv" /\ srv # 0 /\ servers' = Stop(servers, srv)
                /\ TableBuiltFrom(configurationRouter, currentConfiguration))]_vars

\* C13 witness: the second accepted Configuration is being rebuilt, after the
\* rebuild and the stop of the first have returned.
C13_Witness ==
    /\ wpc = "load"
    /\ nrouters = 1
    /\ currentConfiguration = "pB"
    /\ TableBuiltFrom(configurationRouter, "pA")
    /\ srv # 0
    /\ crash = "none"

\* The route a rule map gives when its rules are applied in the order ord.
RouteOf(rules, ord) == ApplyRules([matchers |-> <<>>, panic |-> FALSE], rules, ord)

Malformed(cfg, b) ==
    IF b \in Keys(cfg.Backends)
    THEN {k \in Keys(cfg.Backends.m[b].Servers) : cfg.Backends.m[b].Servers.m[k].Url \notin ValidUrls}
    ELSE {}

\* C15 as claimed: when LoadConfig has returned, every route whose backend has a
\* server with a malformed URL is in the router, its load balancer holds exactly
\* the servers of the backend whose URL is valid, and every server left out was
\* reported.
C15_MalformedUrlReported ==
    (wpc = "stop") =>
        LET cfg == Heap[currentConfiguration]
            rt  == configurationRouter
        IN  \A i \in 1..Len(rt.routes) :
              LET b == cfg.Routes.m[rt.routes[i].name].Backend
              IN  b \in Keys(cfg.Backends) =>
                    /\ rt.pools[rt.routes[i].handler]
                          = {sv \in {cfg.Backends.m[b].Servers.m[k] : k \in Keys(cfg.Backends.m[b].Servers)} :
                                 sv.Url \in ValidUrls}
                    /\ \A k \in Malformed(cfg, b) :
                          [what |-> "server", name |-> k] \in ErrorsLogged(cfg)

\* C16: whether a received Configuration is accepted depends on the active one
\* alone: a non-nil value that differs from the active Configuration becomes the
\* active one and is rebuilt, whatever was accepted before it, and the active
\* Configuration changes in no other way.
C16_ComparedWithActiveOnly ==
    [][/\ (Received /\ configuration' # NilPtr
            /\ ~SameValue(currentConfiguration, configuration'))
           => (currentConfiguration' = configuration' /\ wpc' = "load")
       /\ (currentConfiguration' # currentConfiguration)
           => (Received /\ currentConfiguration' = configuration'
               /\ ~SameValue(currentConfiguration, configuration'))]_vars

\* C16 witness: A, B, A were accepted.  The third router has been built, from A
\* again; the server in service has the second router, built from B, and its
\* predecessor began draining when A was active with one router built.
C16_Witness ==
    /\ currentConfiguration = "pA"
    /\ nrouters = 3
    /\ wpc = "stop"
    /\ TableBuiltFrom(configurationRouter, "pA")
    /\ srv = 2
    /\ servers[2].state = "serving"
    /\ servers[2].handler.id = 2
    /\ TableBuiltFrom(servers[2].handler, "pB")
    /\ servers[2].prevDrainId = 1
    /\ SameValue(servers[2].prevDrainCfg, "pA")

\* The load balancers the routes of router t hand requests to.
BalancersOf(t) == {t.lbs[t.routes[i].handler] : i \in 1..Len(t.routes)}

\* The routers a goroutine or a server holds.
RoutersHeld ==
    {configurationRouter, negroni} \cup {servers[i].handler : i \in 1..Len(servers)}

\* C17: every load balancer a router hands requests to was made by the
\* LoadConfig call that built that router, so routers of two rebuilds have no
\* load balancer in common, whether or not their Configurations name the same
\* backend.
C17_NoBalancerShared ==
    /\ \A t \in RoutersHeld : \A lb \in BalancersOf(t) : lb[1] = t.id
    /\ \A t1, t2 \in RoutersHeld :
          t1.id # t2.id => BalancersOf(t1) \cap BalancersOf(t2) = {}

\* C17 witness: the router of B has been built while a server is in service with
\* the router of A; both have a route on backend b1.
C17_Witness ==
    /\ srv # 0
    /\ servers[srv].state = "serving"
    /\ servers[srv].handler.id = 1
    /\ "b1" \in DOMAIN servers[srv].handler.backends
    /\ configurationRouter.id = 2
    /\ "b1" \in DOMAIN configurationRouter.backends
    /\ BalancersOf(servers[srv].handler) # {}
    /\ BalancersOf(configurationRouter) # {}

\* C18: routers are built and then swapped.  The router of a server that has not
\* stopped is the same in the next state, whatever the watcher builds meanwhile;
\* configurationRouter changes only by the watcher storing what LoadConfig
\* returned for the active Configuration, with every route of it; and the router
\* a new server is bound to is the whole router main read.
C18_BuiltThenSwapped ==
    [][/\ \A i \in 1..Len(servers) :
            servers[i].state # "stopped"
                => (Len(servers') >= i /\ servers'[i].handler = servers[i].handler)
       /\ (configurationRouter' # configurationRouter)
            => /\ wpc = "load" /\ wpc' = "stop"
               /\ TableBuiltFrom(configurationRouter', currentConfiguration)
               /\ Len(configurationRouter'.routes)
                     = Cardinality(Keys(Heap[currentConfiguration].Routes))
       /\ (negroni' # negroni) => negroni' = configurationRouter
       /\ (Len(servers') > Len(servers))
            => servers'[Len(servers')].handler = negroni]_vars

\* C18 witness: a server drains a request on the first router, with both its
\* routes, after the watcher has stored the second router.
C18_Witness ==
    /\ srv # 0
    /\ servers[srv].state = "draining"
    /\ servers[srv].inflight
    /\ servers[srv].handler.id = 1
    /\ Len(servers[srv].handler.routes) = 2
    /\ configurationRouter.id = 2

\* C19: a server that listens does so with TLS exactly when the global
\* configuration names both a certificate file and a key file, and in plaintext
\* otherwise; a server in service or draining listens; and the global
\* configuration never changes, so every restart makes the same choice.
C19_TLSWhenBothFiles ==
    /\ [](\A i \in 1..Len(servers) :
            /\ servers[i].state \in {"serving", "draining"} => servers[i].listener # "none"
            /\ servers[i].listener # "none"
                 => (servers[i].listener = "tls"
                        <=> (gloablConfiguration.CertFile # ""
                             /\ gloablConfiguration.KeyFile # ""))
            /\ servers[i].listener \in {"none", "tls", "plain"})
    /\ [][gloablConfiguration' = gloablConfiguration]_vars

\* C19 witness: with a certificate file and no key file, the second server is in
\* service in plaintext.
C19_Witness ==
    /\ gloablConfiguration.CertFile # ""
    /\ gloablConfiguration.KeyFile = ""
    /\ Len(servers) = 2
    /\ servers[2].state = "serving"
    /\ servers[2].listener = "plain"

\* C20 as claimed: Stop is never called on a nil server handle: neither the
\* watcher nor the signal goroutine reaches its Stop call before main has
\* assigned srv.
C20_StopOnlyOnServer ==
    /\ crash # "nil srv"
    /\ (wpc = "stop" \/ spc = "stop") => srv # 0

====
